---- MODULE Spec2Model ----
(***************************************************************************)
(* link-validator (src/main.rs): for one Markdown file, or every Markdown  *)
(* file below a directory, parse the document into a syntax tree, collect  *)
(* the URL payload of its link nodes, drop the ones that parse as absolute *)
(* URLs, percent-decode and resolve the others against the document's      *)
(* directory, and report the resolved paths that do not exist.             *)
(*                                                                         *)
(* Strings are sequences of bytes (0..255).  The syntax tree is what       *)
(* comrak's parse_document returns; a node is a record                     *)
(*   [kind, url, children]  with url a byte sequence (Vec<u8>).            *)
(* A position is the sequence of child indices leading from the document   *)
(* node to a node; entries of links / file_links / missing_links carry the *)
(* position of the link node they come from as a history field `pos`.      *)
(***************************************************************************)
EXTENDS FiniteSets, Integers, Sequences, TLC

\* ------------------------------------------------------------------------
\* Bounds of the model
\* ------------------------------------------------------------------------
\* Number of Markdown files the directory walk yields, at most.
MaxDocs == 2
\* Number of times the program is run against the same filesystem, at most.
MaxRuns == 2

\* ------------------------------------------------------------------------
\* Bytes and strings
\* ------------------------------------------------------------------------
Ascii ==
  (" " :> 32) @@ ("%" :> 37) @@ ("." :> 46) @@ ("/" :> 47) @@ ("0" :> 48) @@
  ("2" :> 50) @@ (":" :> 58) @@ ("F" :> 70) @@ ("a" :> 97) @@ ("b" :> 98) @@
  ("d" :> 100) @@ ("f" :> 102) @@ ("h" :> 104) @@ ("m" :> 109) @@
  ("p" :> 112) @@ ("s" :> 115) @@ ("t" :> 116) @@ ("w" :> 119) @@ ("x" :> 120)

\* The bytes of a string given as a tuple of one-character strings.
B(cs) == [i \in DOMAIN cs |-> Ascii[cs[i]]]

IsDigit(b) == b >= 48 /\ b <= 57
IsAlpha(b) == (b >= 65 /\ b <= 90) \/ (b >= 97 /\ b <= 122)
IsHex(b) == IsDigit(b) \/ (b >= 65 /\ b <= 70) \/ (b >= 97 /\ b <= 102)
HexVal(b) == IF IsDigit(b) THEN b - 48 ELSE IF b >= 97 THEN b - 87 ELSE b - 55

Drop(s, n) == SubSeq(s, n + 1, Len(s))

\* String::from_utf8 / Utf8Error: is the byte sequence well-formed UTF-8
\* (1- to 4-byte forms; continuation bytes are 0x80..0xBF).
IsCont(b) == b >= 128 /\ b <= 191
RECURSIVE Utf8Valid(_)
Utf8Valid(bs) ==
  IF bs = <<>> THEN TRUE
  ELSE IF bs[1] < 128 THEN Utf8Valid(Drop(bs, 1))
  ELSE IF bs[1] >= 194 /\ bs[1] <= 223
    THEN Len(bs) >= 2 /\ IsCont(bs[2]) /\ Utf8Valid(Drop(bs, 2))
  ELSE IF bs[1] >= 224 /\ bs[1] <= 239
    THEN Len(bs) >= 3 /\ IsCont(bs[2]) /\ IsCont(bs[3]) /\ Utf8Valid(Drop(bs, 3))
  ELSE IF bs[1] >= 240 /\ bs[1] <= 244
    THEN Len(bs) >= 4 /\ IsCont(bs[2]) /\ IsCont(bs[3]) /\ IsCont(bs[4])
         /\ Utf8Valid(Drop(bs, 4))
  ELSE FALSE

\* percent_encoding::percent_decode: "%" followed by two hex digits becomes
\* the byte they denote; every other byte (a lone "%" included) is kept.
RECURSIVE percent_decode(_)
percent_decode(bs) ==
  IF bs = <<>> THEN <<>>
  ELSE IF bs[1] = Ascii["%"] /\ Len(bs) >= 3 /\ IsHex(bs[2]) /\ IsHex(bs[3])
    THEN <<16 * HexVal(bs[2]) + HexVal(bs[3])>> \o percent_decode(Drop(bs, 3))
  ELSE <<bs[1]>> \o percent_decode(Drop(bs, 1))

\* url::Url::parse(l).is_ok(): the string starts with a scheme (a letter, then
\* letters, digits, "+", "-", "."), followed by ":"; without one the parse
\* fails (relative URL without a base).  A special scheme other than "file"
\* needs a non-empty host after the slashes; any other scheme parses.  (The
\* link targets of the model carry no surrounding white space, which the
\* parser would strip.)
IsSchemeByte(b) == IsAlpha(b) \/ IsDigit(b) \/ b = 43 \/ b = 45 \/ b = 46
ColonAt(s) ==
  LET cs == {i \in DOMAIN s : s[i] = Ascii[":"]}
  IN IF cs = {} THEN 0 ELSE CHOOSE i \in cs : \A j \in cs : i <= j
RECURSIVE SkipSlashes(_)
SkipSlashes(s) ==
  IF s # <<>> /\ s[1] = Ascii["/"] THEN SkipSlashes(Drop(s, 1)) ELSE s
IsSpecialScheme(sch) ==
  sch \in { B(<<"h", "t", "t", "p">>), B(<<"h", "t", "t", "p", "s">>),
            B(<<"f", "t", "p">>), B(<<"w", "s">>), B(<<"w", "s", "s">>) }
HostOk(rest) ==
  /\ rest # <<>>
  /\ rest[1] \notin {Ascii["/"], Ascii[":"], Ascii[" "], Ascii["%"]}
UrlParseOk(s) ==
  LET c == ColonAt(s)
  IN /\ c > 1
     /\ IsAlpha(s[1])
     /\ \A i \in 1..(c - 1) : IsSchemeByte(s[i])
     /\ (IsSpecialScheme(SubSeq(s, 1, c - 1)) => HostOk(SkipSlashes(Drop(s, c))))

\* Path::is_relative (Unix): the path does not start at the root.
is_relative(p) == ~(p # <<>> /\ p[1] = Ascii["/"])

\* Path::join / PathBuf::push: an absolute argument replaces the base; else
\* the argument is appended, after a separator unless the base is empty or
\* already ends with one.
PathJoin(base, p) ==
  IF ~is_relative(p) THEN p
  ELSE IF base = <<>> \/ base[Len(base)] = Ascii["/"] THEN base \o p
  ELSE base \o <<Ascii["/"]>> \o p

\* Path::parent: None for the empty path and the root, else the path without
\* its last component (the empty path for a bare file name).
None == [some |-> FALSE]
Some(v) == [some |-> TRUE, val |-> v]
LastSlash(p) ==
  LET ss == {i \in DOMAIN p : p[i] = Ascii["/"]}
  IN IF ss = {} THEN 0 ELSE CHOOSE i \in ss : \A j \in ss : j <= i
PathParent(p) ==
  IF p = <<>> \/ p = <<Ascii["/"]>> THEN None
  ELSE IF LastSlash(p) = 0 THEN Some(<<>>)
  ELSE IF LastSlash(p) = 1 THEN Some(<<Ascii["/"]>>)
  ELSE Some(SubSeq(p, 1, LastSlash(p) - 1))

\* ------------------------------------------------------------------------
\* Syntax trees (comrak::nodes::AstNode) and the documents of the model
\* ------------------------------------------------------------------------
Text == [kind |-> "text", url |-> <<>>, children |-> <<>>]
Para(ch) == [kind |-> "paragraph", url |-> <<>>, children |-> ch]
Emph(ch) == [kind |-> "emph", url |-> <<>>, children |-> ch]
Image(u, ch) == [kind |-> "image", url |-> u, children |-> ch]
Link(u, ch) == [kind |-> "link", url |-> u, children |-> ch]
Document(ch) == [kind |-> "document", url |-> <<>>, children |-> ch]

\* Link targets: a relative path, an absolute path, a percent-encoded
\* relative path, a percent-encoded path that decodes to an absolute one, a
\* percent-encoding of a byte that is not UTF-8, an absolute URL, a URL-like
\* string the URL parser rejects (empty host), and a payload that is not text.
T_rel == B(<<"a", ".", "m", "d">>)
T_abs == B(<<"/", "b", ".", "m", "d">>)
T_enc == B(<<"a", "%", "2", "0", "b">>)
T_encabs == B(<<"%", "2", "F", "b", ".", "m", "d">>)
T_bad == B(<<"%", "F", "F">>)
T_url == B(<<"w", "s", ":", "/", "/", "a">>)
T_nohost == B(<<"w", "s", ":", "/", "/">>)
T_raw == <<255>>

\* Where a document lies: below /d, below the root, or named by a bare file
\* name (no directory component).
P_abs == B(<<"/", "d", "/">>)
P_root == B(<<"/">>)
P_bare == <<>>

R_none == Document(<<Para(<<Text>>)>>)
R_mixed ==
  Document(<<Para(<<Link(T_rel, <<Text>>), Text, Link(T_url, <<Text>>)>>),
             Para(<<Emph(<<Link(T_abs, <<>>)>>)>>)>>)
R_decode ==
  Document(<<Para(<<Link(T_enc, <<Text>>), Link(T_bad, <<Text>>),
                    Link(T_rel, <<Text>>)>>)>>)
R_nested ==
  Document(<<Para(<<Link(T_url, <<Text, Link(T_nohost, <<Text>>)>>),
                    Emph(<<Link(T_rel, <<Link(T_nohost, <<Text>>)>>)>>)>>)>>)
R_dup ==
  Document(<<Para(<<Link(T_rel, <<Text>>)>>),
             Para(<<Emph(<<Link(T_rel, <<Text>>)>>), Link(T_encabs, <<>>)>>),
             Image(T_abs, <<Link(T_rel, <<Text>>)>>)>>)
R_raw ==
  Document(<<Para(<<Link(T_raw, <<Text>>), Link(T_abs, <<Text>>)>>)>>)

Doc(p, r) == [prefix |-> p, readable |-> TRUE, root |-> r]
\* A Markdown-named entry whose text cannot be read (a directory named x.md,
\* a file that is not UTF-8, a file without read permission).
Unreadable == [prefix |-> P_abs, readable |-> FALSE, root |-> Document(<<>>)]

Docs ==
  { Doc(P_abs, R_none), Doc(P_abs, R_mixed), Doc(P_bare, R_mixed),
    Doc(P_abs, R_decode), Doc(P_abs, R_nested), Doc(P_abs, R_dup),
    Doc(P_abs, R_raw), Doc(P_root, R_decode), Unreadable }

\* The i-th Markdown file of a walk: files of one walk differ in their names.
FileName(i) == [j \in 1..i |-> Ascii["x"]] \o B(<<".", "m", "d">>)
Entry(d, i) ==
  [path |-> d.prefix \o FileName(i), readable |-> d.readable, root |-> d.root]

\* Paths that may exist on disk.
FsPaths ==
  { B(<<"/", "d", "/", "a", ".", "m", "d">>), T_abs, T_rel }

\* The walks of at most n files: a walk below a directory yields no bare
\* file name.
Walks(n) ==
  UNION { { [i \in 1..m |-> Entry(ds[i], i)] : ds \in [1..m -> Docs] } :
          m \in 0..n }

\* ------------------------------------------------------------------------
\* State
\* ------------------------------------------------------------------------
VARIABLES
  srcKind,        \* what the `src` argument names: absent, file, other, dir
  entries,        \* the Markdown files to check, in walk order
  fs,             \* the paths that exist on disk
  run,            \* how many times the program has been started
  pc,             \* position in main / get_missing_links
  idx,            \* main: index of the entry being checked
  any_missing,    \* main: the header has been printed
  out,            \* what the process has printed, in order
  links,          \* get_missing_links: links
  file_links,     \* get_missing_links: file_links
  missing_links,  \* get_missing_links: missing_links
  k,              \* get_missing_links: index of the running loop
  probes,         \* history: the paths probed by exists() in this call
  results         \* history: per run, what each get_missing_links returned

vars ==
  <<srcKind, entries, fs, run, pc, idx, any_missing, out, links, file_links,
    missing_links, k, probes, results>>

world == <<srcKind, entries, fs>>
locals == <<links, file_links, missing_links, k, probes>>

Init ==
  /\ srcKind \in {"absent", "file", "other", "dir"}
  /\ entries \in Walks(MaxDocs)
  /\ srcKind = "file" => Len(entries) = 1
  /\ srcKind = "dir" => \A i \in DOMAIN entries : LastSlash(entries[i].path) > 0
  /\ srcKind \in {"absent", "other"} => entries = <<>>
  /\ fs \in SUBSET FsPaths
  /\ run = 1
  /\ pc = "main"
  /\ idx = 0
  /\ any_missing = FALSE
  /\ out = <<>>
  /\ links = <<>>
  /\ file_links = <<>>
  /\ missing_links = <<>>
  /\ k = 0
  /\ probes = <<>>
  /\ results = <<<<>>>>

\* ------------------------------------------------------------------------
\* get_missing_links and its helpers
\* ------------------------------------------------------------------------
\* extract_links: a link node pushes its payload when the payload is text and
\* is not descended into; any other node descends into its children in order.
RECURSIVE extract_links(_, _, _), extract_children(_, _, _, _)
\* Variant: a link node is recorded and its children are searched as well.
extract_links_descend(node, pos, output) ==
  IF node.kind = "link"
    THEN extract_children(node, pos, 1,
           IF Utf8Valid(node.url)
             THEN Append(output, [url |-> node.url, pos |-> pos])
             ELSE output)
    ELSE extract_children(node, pos, 1, output)
extract_links(node, pos, output) ==
  IF node.kind = "link"
    THEN IF Utf8Valid(node.url)
           THEN Append(output, [url |-> node.url, pos |-> pos])
           ELSE output
    ELSE extract_children(node, pos, 1, output)
\* Variant: the children are visited from the last to the first.
extract_children_rev(node, pos, i, output) ==
  IF i > Len(node.children) THEN output
  ELSE LET j == Len(node.children) + 1 - i
       IN extract_children(node, pos, i + 1,
            extract_links(node.children[j], Append(pos, j), output))
extract_children(node, pos, i, output) ==
  IF i > Len(node.children) THEN output
  ELSE extract_children(node, pos, i + 1,
         extract_links(node.children[i], Append(pos, i), output))

\* Path::exists
exists(p) == p \in fs

\* Variant: the test is inverted (is_ok for is_err).
url_parse_is_ok(l) == UrlParseOk(l)
\* Url::parse(l).is_err(): the target is not an absolute URL.
url_parse_is_err(l) == ~UrlParseOk(l)

\* Variant: a path already on the list is not pushed again.
check_link_dedup(missing, l) ==
  IF ~exists(l.path) /\ ~\E i \in DOMAIN missing : missing[i].path = l.path
    THEN Append(missing, l) ELSE missing
\* if !l.exists() { missing_links.push(l.clone()) }
check_link(missing, l) ==
  IF ~exists(l.path) THEN Append(missing, l) ELSE missing

\* Variant: relative links are left relative to the working directory.
base_dir_cwd(file) == <<>>
\* file.parent(), or the empty path when there is none.
base_dir(file) ==
  IF PathParent(file).some THEN PathParent(file).val ELSE <<>>

\* read_markdown(file).unwrap() fails: the process panics.
ReadFails ==
  /\ pc = "call"
  /\ ~entries[idx].readable
  /\ pc' = "panicked"
  /\ UNCHANGED <<world, run, idx, any_missing, out, locals, results>>

\* Variant: the links vector outlives the call.
GetMissingLinksBegin_keep ==
  /\ pc = "call"
  /\ entries[idx].readable
  /\ links' = links
  /\ file_links' = <<>>
  /\ missing_links' = <<>>
  /\ probes' = <<>>
  /\ k' = 1
  /\ pc' = "extract"
  /\ UNCHANGED <<world, run, idx, any_missing, out, results>>

\* The document is read and parsed; links and file_links start empty.
GetMissingLinksBegin ==
  /\ pc = "call"
  /\ entries[idx].readable
  /\ links' = <<>>
  /\ file_links' = <<>>
  /\ missing_links' = <<>>
  /\ probes' = <<>>
  /\ k' = 1
  /\ pc' = "extract"
  /\ UNCHANGED <<world, run, idx, any_missing, out, results>>

\* for node in root.children() { extract_links(node, &mut links) }
ExtractStep ==
  /\ pc = "extract"
  /\ LET root == entries[idx].root
     IN IF k <= Len(root.children)
          THEN /\ links' = extract_links(root.children[k], <<k>>, links)
               /\ k' = k + 1
               /\ pc' = pc
          ELSE /\ links' = links
               /\ k' = 1
               /\ pc' = "classify"
  /\ UNCHANGED <<world, run, idx, any_missing, out, file_links, missing_links,
                 probes, results>>

\* The two lines printed for a target whose decoded bytes are not UTF-8; the
\* entry and the position of the link node are history fields.
DecodeError(l, entry) ==
  <<[kind |-> "error_path", url |-> l.url, pos |-> l.pos, entry |-> entry],
    [kind |-> "error_msg"]>>

\* Variant: a decode failure ends the loop over the links.
ClassifyStep_break ==
  /\ pc = "classify"
  /\ IF k <= Len(links)
       THEN LET l == links[k]
                decoded == percent_decode(l.url)
            IN IF ~url_parse_is_err(l.url)
                 THEN /\ UNCHANGED <<file_links, out>>
                      /\ k' = k + 1
                      /\ pc' = pc
                 ELSE IF Utf8Valid(decoded)
                   THEN /\ file_links' =
                             Append(file_links, [path |-> decoded, pos |-> l.pos])
                        /\ out' = out
                        /\ k' = k + 1
                        /\ pc' = pc
                   ELSE /\ file_links' = file_links
                        /\ out' = out \o DecodeError(l, idx)
                        /\ k' = 1
                        /\ pc' = "resolve"
       ELSE /\ k' = 1
            /\ pc' = "resolve"
            /\ UNCHANGED <<file_links, out>>
  /\ UNCHANGED <<world, run, idx, any_missing, links, missing_links, probes,
                 results>>

\* for l in &links: a URL is ignored; anything else is percent-decoded and
\* pushed on file_links, or reported when the decoded bytes are not UTF-8.
ClassifyStep ==
  /\ pc = "classify"
  /\ IF k <= Len(links)
       THEN LET l == links[k]
                decoded == percent_decode(l.url)
            IN /\ IF ~url_parse_is_err(l.url)
                    THEN UNCHANGED <<file_links, out>>
                    ELSE IF Utf8Valid(decoded)
                      THEN /\ file_links' =
                                Append(file_links, [path |-> decoded, pos |-> l.pos])
                           /\ out' = out
                      ELSE /\ file_links' = file_links
                           /\ out' = out \o DecodeError(l, idx)
               /\ k' = k + 1
               /\ pc' = pc
       ELSE /\ k' = 1
            /\ pc' = "resolve"
            /\ UNCHANGED <<file_links, out>>
  /\ UNCHANGED <<world, run, idx, any_missing, links, missing_links, probes,
                 results>>

\* Variant: the path is probed on disk while it is being resolved.
ResolveStep_probing ==
  /\ pc = "resolve"
  /\ IF k <= Len(file_links)
       THEN /\ file_links' =
                 IF is_relative(file_links[k].path)
                   THEN [file_links EXCEPT
                           ![k].path = PathJoin(base_dir(entries[idx].path), @)]
                   ELSE file_links
            /\ probes' = Append(probes, file_links'[k].path)
            /\ k' = k + 1
            /\ pc' = pc
            /\ missing_links' = missing_links
       ELSE /\ file_links' = file_links
            /\ probes' = probes
            /\ missing_links' = <<>>
            /\ k' = 1
            /\ pc' = "check"
  /\ UNCHANGED <<world, run, idx, any_missing, out, links, results>>

\* for l in file_links.iter_mut(): a relative path is joined onto base_dir.
ResolveStep ==
  /\ pc = "resolve"
  /\ IF k <= Len(file_links)
       THEN /\ file_links' =
                 IF is_relative(file_links[k].path)
                   THEN [file_links EXCEPT
                           ![k].path = PathJoin(base_dir(entries[idx].path), @)]
                   ELSE file_links
            /\ k' = k + 1
            /\ pc' = pc
            /\ missing_links' = missing_links
       ELSE /\ file_links' = file_links
            /\ missing_links' = <<>>
            /\ k' = 1
            /\ pc' = "check"
  /\ UNCHANGED <<world, run, idx, any_missing, out, links, probes, results>>

\* for l in &file_links: a path that does not exist is pushed on
\* missing_links; after the loop the function returns missing_links.
CheckStep ==
  /\ pc = "check"
  /\ IF k <= Len(file_links)
       THEN /\ probes' = Append(probes, file_links[k].path)
            /\ missing_links' = check_link(missing_links, file_links[k])
            /\ k' = k + 1
            /\ pc' = pc
       ELSE /\ UNCHANGED <<probes, missing_links, k>>
            /\ pc' = "ret"
  /\ UNCHANGED <<world, run, idx, any_missing, out, links, file_links, results>>

\* ------------------------------------------------------------------------
\* main and print_missing
\* ------------------------------------------------------------------------
Header == [kind |-> "header"]

\* Variant: any_missing is not consulted.
first_missing_always(missing, any) == Len(missing) > 0
\* (missing_links.len() > 0) && !any_missing
first_missing(missing, any) == Len(missing) > 0 /\ ~any

\* print_missing: per missing link, the link (after an empty line and the
\* file's name when print_filename is set).
RECURSIVE print_missing(_, _, _)
print_missing(missing, file, print_filename) ==
  IF missing = <<>> THEN <<>>
  ELSE (IF print_filename
          THEN <<[kind |-> "blank"], [kind |-> "file", path |-> file],
                 [kind |-> "missing", path |-> missing[1].path]>>
          ELSE <<[kind |-> "missing", path |-> missing[1].path]>>)
       \o print_missing(Tail(missing), file, print_filename)

\* src does not exist, or is a file that is not Markdown: messages only.
MainSkip ==
  /\ pc = "main"
  /\ srcKind \in {"absent", "other"}
  /\ out' = IF srcKind = "absent"
              THEN out \o <<[kind |-> "not_found"], [kind |-> "neither"]>>
              ELSE Append(out, [kind |-> "not_markdown"])
  /\ pc' = "done"
  /\ UNCHANGED <<world, run, idx, any_missing, locals, results>>

\* src is a Markdown file: get_missing_links(src) is called.
MainFile ==
  /\ pc = "main"
  /\ srcKind = "file"
  /\ idx' = 1
  /\ pc' = "call"
  /\ UNCHANGED <<world, run, any_missing, out, locals, results>>

\* src is a directory: any_missing starts false and the walk begins.
MainDir ==
  /\ pc = "main"
  /\ srcKind = "dir"
  /\ any_missing' = FALSE
  /\ idx' = 1
  /\ pc' = IF entries = <<>> THEN "done" ELSE "call"
  /\ UNCHANGED <<world, run, out, locals, results>>

\* File mode, after get_missing_links returned: header when the list is not
\* empty, then the links.
ReportFile ==
  /\ pc = "ret"
  /\ srcKind = "file"
  /\ out' = out \o (IF Len(missing_links) > 0 THEN <<Header>> ELSE <<>>)
                \o print_missing(missing_links, entries[idx].path, FALSE)
  /\ results' = [results EXCEPT ![run] = Append(@, missing_links)]
  /\ pc' = "done"
  /\ UNCHANGED <<world, run, idx, any_missing, locals>>

\* Directory mode, after get_missing_links returned: the header once, before
\* the first non-empty list; then the links with the file's name; then the
\* next entry of the walk.
ReportDir ==
  /\ pc = "ret"
  /\ srcKind = "dir"
  /\ LET first == first_missing(missing_links, any_missing)
     IN /\ any_missing' = (any_missing \/ first)
        /\ out' = out \o (IF first THEN <<Header>> ELSE <<>>)
                      \o print_missing(missing_links, entries[idx].path, TRUE)
  /\ results' = [results EXCEPT ![run] = Append(@, missing_links)]
  /\ IF idx < Len(entries)
       THEN idx' = idx + 1 /\ pc' = "call"
       ELSE idx' = idx /\ pc' = "done"
  /\ UNCHANGED <<world, run, locals>>

\* The program is started again on the same src and filesystem: a new
\* process, whose memory and output start afresh.
Invoke ==
  /\ pc \in {"done", "panicked"}
  /\ run < MaxRuns
  /\ run' = run + 1
  /\ pc' = "main"
  /\ idx' = 0
  /\ any_missing' = FALSE
  /\ out' = <<>>
  /\ links' = <<>>
  /\ file_links' = <<>>
  /\ missing_links' = <<>>
  /\ k' = 0
  /\ probes' = <<>>
  /\ results' = Append(results, <<>>)
  /\ UNCHANGED world

Next ==
  \/ MainSkip
  \/ MainFile
  \/ MainDir
  \/ ReadFails
  \/ GetMissingLinksBegin
  \/ ExtractStep
  \/ ClassifyStep
  \/ ResolveStep
  \/ CheckStep
  \/ ReportFile
  \/ ReportDir
  \/ Invoke

Spec == Init /\ [][Next]_vars

\* ------------------------------------------------------------------------
\* Vocabulary of the properties
\* ------------------------------------------------------------------------
InCall == pc \in {"extract", "classify", "resolve", "check", "ret"}
cur == entries[idx]

\* All positions of the tree below (and including) the node at pos.
RECURSIVE Positions(_, _)
Positions(node, pos) ==
  {pos} \cup UNION {Positions(node.children[i], Append(pos, i)) :
                      i \in DOMAIN node.children}
RECURSIVE NodeAt(_, _)
NodeAt(node, pos) ==
  IF pos = <<>> THEN node ELSE NodeAt(node.children[pos[1]], Tail(pos))

LinkPositions(root) ==
  {p \in Positions(root, <<>>) : NodeAt(root, p).kind = "link"}
IsProperPrefix(p, q) == Len(p) < Len(q) /\ SubSeq(q, 1, Len(p)) = p
\* The link nodes that are not below another link node.
TopLinkPositions(root) ==
  {p \in LinkPositions(root) :
     ~\E q \in LinkPositions(root) : IsProperPrefix(q, p)}

\* Document order (pre-order, depth first, left to right) on positions.
RECURSIVE DocBefore(_, _)
DocBefore(p, q) ==
  IF q = <<>> THEN FALSE
  ELSE IF p = <<>> THEN TRUE
  ELSE IF p[1] # q[1] THEN p[1] < q[1]
  ELSE DocBefore(Tail(p), Tail(q))
InDocOrder(list) ==
  \A i, j \in DOMAIN list : i < j => DocBefore(list[i].pos, list[j].pos)

Target(p) == NodeAt(cur.root, p).url
PosOf(list) == {list[i].pos : i \in DOMAIN list}

\* Classification of a link node's payload, as the specification words it.
IsText(u) == Utf8Valid(u)
IsLocalRef(u) == IsText(u) /\ ~UrlParseOk(u)
IsDecodable(u) == IsLocalRef(u) /\ Utf8Valid(percent_decode(u))
PercentFails(u) == IsLocalRef(u) /\ ~Utf8Valid(percent_decode(u))

\* The directory of a document, from its path: what precedes the last
\* separator (the root for a file directly below it), nothing for a bare name.
DirOf(path) ==
  IF LastSlash(path) = 0 THEN <<>>
  ELSE IF LastSlash(path) = 1 THEN <<Ascii["/"]>>
  ELSE SubSeq(path, 1, LastSlash(path) - 1)
StartsAtRoot(r) == r # <<>> /\ r[1] = Ascii["/"]
Joined(d, r) ==
  IF d = <<>> THEN r
  ELSE IF d = <<Ascii["/"]>> THEN d \o r
  ELSE d \o <<Ascii["/"]>> \o r
\* The Resolved Path of the payload u in the current document.
Resolved(u) ==
  IF StartsAtRoot(percent_decode(u)) THEN percent_decode(u)
  ELSE Joined(DirOf(cur.path), percent_decode(u))

\* The link nodes (among ps) that are Missing Links of the current document.
MissingAmong(ps) ==
  {p \in ps : IsDecodable(Target(p)) /\ Resolved(Target(p)) \notin fs}

ErrorPositions ==
  {out[i].pos : i \in {j \in DOMAIN out :
                         out[j].kind = "error_path" /\ out[j].entry = idx}}
Times(list, path) == Cardinality({i \in DOMAIN list : list[i].path = path})
CountKind(kind) == Cardinality({i \in DOMAIN out : out[i].kind = kind})

\* ------------------------------------------------------------------------
\* C1
\* ------------------------------------------------------------------------
\* C1: a link target that parses as an absolute URL never reaches file_links
\* or the Missing Link list, and once classification is over every extracted
\* target is exactly one of External (dropped) or Local Reference (on
\* file_links, or reported as a decode failure).
C1_UrlNeverMissing ==
  InCall =>
    /\ \A i \in DOMAIN file_links : ~UrlParseOk(Target(file_links[i].pos))
    /\ \A i \in DOMAIN missing_links : ~UrlParseOk(Target(missing_links[i].pos))
    /\ pc \in {"resolve", "check", "ret"} =>
         \A i \in DOMAIN links :
           UrlParseOk(links[i].url) <=>
             links[i].pos \notin (PosOf(file_links) \cup ErrorPositions)

C1_Witness ==
  /\ pc = "ret"
  /\ missing_links # <<>>
  /\ \E i \in DOMAIN links : UrlParseOk(links[i].url)

\* ------------------------------------------------------------------------
\* C2
\* ------------------------------------------------------------------------
\* C2: after resolution every path on file_links is the percent-decoded
\* payload itself when that is absolute, and else the document's directory
\* joined with it (the decoded payload itself for a bare file name).
C2_ResolvedPath ==
  pc \in {"check", "ret"} =>
    \A i \in DOMAIN file_links :
      LET r == percent_decode(Target(file_links[i].pos))
      IN /\ StartsAtRoot(r) => file_links[i].path = r
         /\ ~StartsAtRoot(r) =>
              file_links[i].path = Joined(DirOf(cur.path), r)
         /\ (~StartsAtRoot(r) /\ DirOf(cur.path) = <<>>) =>
              file_links[i].path = r

C2_Witness ==
  /\ pc = "check"
  /\ DirOf(cur.path) \notin {<<>>, <<Ascii["/"]>>}
  /\ \E i \in DOMAIN file_links :
       ~StartsAtRoot(percent_decode(Target(file_links[i].pos)))
  /\ \E i \in DOMAIN file_links :
       /\ StartsAtRoot(percent_decode(Target(file_links[i].pos)))
       /\ Target(file_links[i].pos) # percent_decode(Target(file_links[i].pos))

\* ------------------------------------------------------------------------
\* C3
\* ------------------------------------------------------------------------
\* C3: links, file_links and missing_links are each in document order of
\* the link nodes their entries come from, at every stage of the call.
C3_DocumentOrder ==
  InCall =>
    /\ InDocOrder(links)
    /\ InDocOrder(file_links)
    /\ InDocOrder(missing_links)

C3_Witness ==
  /\ pc = "ret"
  /\ Len(missing_links) >= 3
  /\ Len(links) > Len(missing_links)

\* ------------------------------------------------------------------------
\* C4
\* ------------------------------------------------------------------------
\* C4 as stated: the returned entries come from distinct link nodes, and a
\* path is returned once for every link node of the tree whose target is a
\* decodable Local Reference resolving to it and absent from disk.
C4_OnePerLinkNode ==
  pc = "ret" =>
    /\ Cardinality(PosOf(missing_links)) = Len(missing_links)
    /\ Len(missing_links) =
         Cardinality(MissingAmong(LinkPositions(cur.root)))

\* C4 amended: the same, counting the link nodes that are not below another
\* link node; a path that k of them resolve to is returned exactly k times.
C4_OnePerTopLinkNode ==
  pc = "ret" =>
    /\ Cardinality(PosOf(missing_links)) = Len(missing_links)
    /\ PosOf(missing_links) = MissingAmong(TopLinkPositions(cur.root))
    /\ \A p \in TopLinkPositions(cur.root) :
         IsDecodable(Target(p)) /\ Resolved(Target(p)) \notin fs =>
           Times(missing_links, Resolved(Target(p))) =
             Cardinality({q \in MissingAmong(TopLinkPositions(cur.root)) :
                            Resolved(Target(q)) = Resolved(Target(p))})

C4_Witness ==
  /\ pc = "ret"
  /\ \E i, j \in DOMAIN missing_links :
       i < j /\ missing_links[i].path = missing_links[j].path

\* ------------------------------------------------------------------------
\* C5
\* ------------------------------------------------------------------------
\* C5 as stated: after extraction, links holds exactly one entry, with the
\* node's payload, for every link node that is not below another link node,
\* and none for a link node below another one.
C5_OnePerTopLink ==
  pc \in {"classify", "resolve", "check", "ret"} =>
    /\ PosOf(links) = TopLinkPositions(cur.root)
    /\ Cardinality(PosOf(links)) = Len(links)
    /\ \A i \in DOMAIN links : links[i].url = Target(links[i].pos)

\* C5 amended: the same for the link nodes whose payload is valid text; a
\* link node whose payload is not valid text yields no entry.
C5_OnePerTextTopLink ==
  pc \in {"classify", "resolve", "check", "ret"} =>
    /\ PosOf(links) = {p \in TopLinkPositions(cur.root) : IsText(Target(p))}
    /\ Cardinality(PosOf(links)) = Len(links)
    /\ \A i \in DOMAIN links : links[i].url = Target(links[i].pos)

C5_Witness ==
  /\ pc = "classify"
  /\ links # <<>>
  /\ LinkPositions(cur.root) # TopLinkPositions(cur.root)
  /\ \E p \in Positions(cur.root, <<>>) :
       Len(p) >= 3 /\ p \in PosOf(links)

\* ------------------------------------------------------------------------
\* C6
\* ------------------------------------------------------------------------
\* C6 as stated: every link node (not below another) whose payload is not
\* valid text or does not percent-decode is reported on the diagnostic
\* channel and kept off file_links and the Missing Link list.
C6_FailuresReported ==
  pc = "ret" =>
    \A p \in TopLinkPositions(cur.root) :
      (~IsText(Target(p)) \/ PercentFails(Target(p))) =>
        /\ p \in ErrorPositions
        /\ p \notin PosOf(file_links) \cup PosOf(missing_links)

\* C6 amended: a percent-decoding failure is reported, once; a payload that
\* is not valid text is dropped without a report; both stay off file_links
\* and the Missing Link list, and every other Local Reference is still put
\* on file_links and, when absent from disk, returned.
C6_PercentFailuresReported ==
  pc \in {"resolve", "check", "ret"} =>
    /\ ErrorPositions =
         {p \in TopLinkPositions(cur.root) : PercentFails(Target(p))}
    /\ Cardinality({j \in DOMAIN out :
                      out[j].kind = "error_path" /\ out[j].entry = idx})
         = Cardinality(ErrorPositions)
    /\ PosOf(file_links) =
         {p \in TopLinkPositions(cur.root) : IsDecodable(Target(p))}
    /\ pc = "ret" =>
         PosOf(missing_links) = MissingAmong(TopLinkPositions(cur.root))

C6_Witness ==
  /\ pc = "ret"
  /\ \E e \in ErrorPositions :
       /\ \E i \in DOMAIN missing_links : DocBefore(e, missing_links[i].pos)
       /\ \E i \in DOMAIN missing_links : DocBefore(missing_links[i].pos, e)

\* ------------------------------------------------------------------------
\* C7
\* ------------------------------------------------------------------------
\* C7: in directory mode, when the program has ended, every readable
\* Markdown file of the walk has been checked, whatever came before it.
C7_LaterDocumentsChecked ==
  (srcKind = "dir" /\ pc \in {"done", "panicked"}) =>
    Len(results[run]) =
      Cardinality({i \in DOMAIN entries : entries[i].readable})

\* ------------------------------------------------------------------------
\* C8
\* ------------------------------------------------------------------------
\* Two entries of the walk with the same text in the same directory.
SameDocument(i, j) ==
  /\ entries[i].root = entries[j].root
  /\ DirOf(entries[i].path) = DirOf(entries[j].path)

\* C8: a document yields the same list, in the same order, in every run of
\* the program, and the same list as any identical document of the same run.
C8_Idempotent ==
  /\ \A r1, r2 \in DOMAIN results :
       \A i \in DOMAIN results[r1] \cap DOMAIN results[r2] :
         results[r1][i] = results[r2][i]
  /\ \A r \in DOMAIN results :
       \A i, j \in DOMAIN results[r] :
         SameDocument(i, j) => results[r][i] = results[r][j]

C8_Witness ==
  /\ run = 2
  /\ pc = "done"
  /\ Len(results[1]) = 2 /\ Len(results[2]) = 2
  /\ SameDocument(1, 2)
  /\ Len(results[2][2]) >= 2

\* ------------------------------------------------------------------------
\* C9
\* ------------------------------------------------------------------------
C9_Probes ==
  /\ pc \in {"extract", "classify", "resolve"} => probes = <<>>
  /\ pc = "check" =>
       /\ Len(probes) = k - 1
       /\ \A i \in DOMAIN probes : probes[i] = file_links[i].path
  /\ pc = "ret" =>
       /\ Len(probes) = Len(file_links)
       /\ \A i \in DOMAIN probes : probes[i] = file_links[i].path
       /\ Len(probes) =
            Cardinality({p \in TopLinkPositions(cur.root) :
                           IsDecodable(Target(p))})

\* C9: the filesystem never changes; during extraction, classification and
\* resolution nothing is probed; each probe happens in the checking loop,
\* with links and file_links final; at return there is one probe per
\* decodable Local Reference, of its resolved path, and no other.
C9_ReadOnlyOneProbe ==
  /\ []C9_Probes
  /\ [][/\ fs' = fs
        /\ Len(probes') > Len(probes) =>
             (pc = "check" /\ links' = links /\ file_links' = file_links)]_vars

C9_Witness ==
  /\ pc = "ret"
  /\ Len(probes) >= 2
  /\ Len(links) > Len(probes)
  /\ Len(probes) > Len(missing_links)

\* ------------------------------------------------------------------------
\* C10
\* ------------------------------------------------------------------------
RECURSIVE TotalLen(_)
TotalLen(lists) ==
  IF lists = <<>> THEN 0 ELSE Len(Head(lists)) + TotalLen(Tail(lists))

====
